---- MODULE Spec2Model ----
(***************************************************************************)
(* A model of depman, a dependency manager: nodes with ordered parents, a  *)
(* persistent hash table, the parents-first traversal, the per-node update *)
(* rule (_trigger_update), and the asynchronous pool whose result-handler  *)
(* thread runs the completion callback concurrently with the coordinator.  *)
(*                                                                         *)
(* Node n of the model is the n-th Node constructed; its nid is the        *)
(* decimal string of gid = n - 1, named here by that number.  A content    *)
(* hash is a comma-free digest string, named here by a number.  Parents    *)
(* are Node objects that exist when a node is constructed, so every parent *)
(* of node n is a node m < n.                                              *)
(***************************************************************************)
EXTENDS Integers, Sequences, FiniteSets, TLC

\* ------------------------------------------------------------------ bounds
NumNodes == 3       \* nodes of the graphs of a single update run
MaxEdges == 3       \* summed length of the parent lists of such a graph
RerunNodes == 2     \* nodes of the graphs of scripts that are run again
RerunEdges == 2     \* summed length of the parent lists of such a graph
MaxRuns == 2        \* updates against one hash table
TravNodes == 4      \* nodes of the graphs handed to _traverse alone
MaxSize == 5        \* summed length of their parent lists and the start list
MaxStored == 2      \* parents of the node classified alone, now and in its record

\* --------------------------------------------------------------- constants
DEBUG == TRUE

VARIABLES
  parents,            \* Node.parents: node -> sequence of nodes
  hash,               \* what Node.hash() returns now: node -> digest
  hash_table,         \* the dbm store: nid -> "hsh,pid,phsh,..." as its fields
  _update_done,       \* Node._update_done
  _payload_delivered, \* Node._payload_delivered
  _response,          \* Node._response: None or the result object of the pool
  job,                \* the pool's view of a node's task
  handler,            \* the pool's result-handler thread: [pc, n]
  cpc,                \* position of the main control flow
  nodes,              \* the argument of update / _traverse
  trv,                \* the list _traverse builds / update iterates
  i,                  \* index of the comprehension of line 108
  stack,              \* frames of _trigger_update: [n, pc, k]
  err,                \* the exception that ended update, "" when none
  q,                  \* the work queue of _traverse
  run,                \* number of the current update
  completed,          \* the update before this one returned
  changed,            \* the nodes whose content hash has changed since then
  repeat,             \* this update repeats a completed one, nothing changed
  submits,            \* per node: apply_async calls in this update
  writes,             \* per node: _write_hashes calls in this update
  state,              \* per node: what its last _check_state() call returned
                      \* or raised, "" before the first call
  gid,                \* the global node counter
  nids                \* per node: the nid argument of its construction and
                      \* its attribute nid, -1 for None and for no attribute

vars == <<parents, hash, hash_table, _update_done, _payload_delivered,
          _response, job, handler, cpc, nodes, trv, i, stack, err, q,
          run, completed, changed, repeat, submits, writes, state, gid, nids>>

\* ------------------------------------------------------------------ graphs
\* the nodes constructed
Nodes == DOMAIN parents

\* the lists of length k over the nodes 1..n
Lists(k, n) == [1..k -> 1..n]

\* the parent lists of the graphs of nodes 1..n with at most e edges: any
\* order, repeated parents included
RECURSIVE Graphs(_, _)
Graphs(n, e) ==
  IF n = 0 THEN {<<>>}
  ELSE UNION {{Append(g, ps) : g \in Graphs(n - 1, e - k), ps \in Lists(k, n - 1)} :
                k \in 0..e}

\* the summed length of the parent lists of g
RECURSIVE Edges(_)
Edges(g) == IF g = <<>> THEN 0 ELSE Len(g[Len(g)]) + Edges(SubSeq(g, 1, Len(g) - 1))

\* x in lst, with Node.__eq__ comparing nids
In(x, lst) == \E j \in 1..Len(lst) : lst[j] = x

\* the nodes of a list
Range(lst) == {lst[j] : j \in 1..Len(lst)}

\* the nodes reachable from the nodes of S through the parent relation
RECURSIVE Reachable(_)
Reachable(S) ==
  LET T == S \cup UNION {Range(parents[n]) : n \in S}
  IN  IF T = S THEN S ELSE Reachable(T)

\* lst.remove(x): drop the first occurrence of x
RECURSIVE remove(_, _)
remove(lst, x) ==
  IF lst = <<>> THEN <<>>
  ELSE IF Head(lst) = x THEN Tail(lst)
  ELSE <<Head(lst)>> \o remove(Tail(lst), x)

\* --------------------------------------------------------------- _traverse
\* TravStep that reads the head of the queue without popping it
TravStepNoPop(qq, tt) ==
  LET x == Head(qq)
      q2 == qq \o SelectSeq(parents[x], LAMBDA y : ~In(y, qq))
      t1 == IF In(x, tt) THEN remove(tt, x) ELSE tt
  IN  [q |-> q2, trv |-> <<x>> \o t1]

\* TravStep that leaves a node already listed where it is
TravStepKeep(qq, tt) ==
  LET x == Head(qq)
      q1 == Tail(qq)
      q2 == q1 \o SelectSeq(parents[x], LAMBDA y : ~In(y, q1))
  IN  [q |-> q2, trv |-> IF In(x, tt) THEN tt ELSE <<x>> \o tt]

\* TravStep that does not remove the earlier occurrence of a node
TravStepDup(qq, tt) ==
  LET x == Head(qq)
      q1 == Tail(qq)
      q2 == q1 \o SelectSeq(parents[x], LAMBDA y : ~In(y, q1))
  IN  [q |-> q2, trv |-> <<x>> \o tt]

\* one round of the while loop of _traverse on queue qq and list tt
TravStep(qq, tt) ==
  LET x == Head(qq)
      q1 == Tail(qq)
      q2 == q1 \o SelectSeq(parents[x], LAMBDA y : ~In(y, q1))
      t1 == IF In(x, tt) THEN remove(tt, x) ELSE tt
  IN  [q |-> q2, trv |-> <<x>> \o t1]

RECURSIVE TravLoop(_, _)
TravLoop(qq, tt) ==
  IF qq = <<>> THEN tt
  ELSE LET s == TravStep(qq, tt) IN TravLoop(s.q, s.trv)

_traverse(ns) == TravLoop(ns, <<>>)

\* -------------------------------------------------------------- hash table
\* Node.nid of the n-th node constructed: str(gid), gid counting from 0
nid(n) == n - 1

\* [(x.nid, x.hash()) for x in self.parents]
list_parents_and_hashes(n) ==
  [j \in 1..Len(parents[n]) |-> <<nid(parents[n][j]), hash[parents[n][j]]>>]

\* join that puts the hash of a parent before its id
RECURSIVE join_swapped(_)
join_swapped(ps) ==
  IF ps = <<>> THEN <<>> ELSE <<Head(ps)[2], Head(ps)[1]>> \o join_swapped(Tail(ps))

\* the fields of "hsh,id1,hsh1,id2,hsh2,..." after the joins of _write_hashes
RECURSIVE join(_)
join(ps) == IF ps = <<>> THEN <<>> ELSE <<Head(ps)[1], Head(ps)[2]>> \o join(Tail(ps))

\* _write_hashes that joins only the hash of the node
_write_hashes_own(id, hsh, ps) ==
  [k \in DOMAIN hash_table \cup {id} |-> IF k = id THEN <<hsh>> ELSE hash_table[k]]

\* the table after _write_hashes(id, hsh, ps)
_write_hashes(id, hsh, ps) ==
  [k \in DOMAIN hash_table \cup {id} |->
     IF k = id THEN <<hsh>> \o join(ps) ELSE hash_table[k]]

\* _read_hashes that takes the hash from the last field of the record
_read_hashes_last(id) ==
  LET aux == hash_table[id]
  IN  [hsh |-> aux[Len(aux)],
       parents |-> [j \in 1..((Len(aux) - 1) \div 2) |-> <<aux[2 * j], aux[2 * j + 1]>>]]

\* _read_hashes(id) for an id in the table: aux[0] and the pairs
\* (aux[i], aux[i+1]) for i = 1, 3, ... (0-based) of the split record
_read_hashes(id) ==
  LET aux == hash_table[id]
  IN  [hsh |-> aux[1],
       parents |-> [j \in 1..((Len(aux) - 1) \div 2) |-> <<aux[2 * j], aux[2 * j + 1]>>]]

\* AllParentsDone with any() for all()
AnyParentDone(n) ==
  parents[n] = <<>> \/ \E j \in 1..Len(parents[n]) : _update_done[parents[n][j]]

\* AllParentsDone that looks at the first parent only
FirstParentDone(n) == parents[n] = <<>> \/ _update_done[parents[n][1]]

\* all([x._update_done for x in self.parents])
AllParentsDone(n) == \A j \in 1..Len(parents[n]) : _update_done[parents[n][j]]

\* ------------------------------------------------------------ _check_state
\* _check_state without the loop of lines 406-411
_check_state_gone(n) ==
  IF ~AllParentsDone(n) THEN "RuntimeError"
  ELSE IF nid(n) \notin DOMAIN hash_table THEN "new"
  ELSE
    LET r == _read_hashes(nid(n))
        prev == r.parents
        now == list_parents_and_hashes(n)
        gone == \E a \in 1..Len(prev) : \A b \in 1..Len(now) : now[b][1] # prev[a][1]
        \* first index at which the loop of line 417 stops, 0 when it runs through
        stop == IF \E b \in 1..Len(now) : b > Len(prev) \/ now[b][1] # prev[b][1]
                THEN CHOOSE b \in 1..Len(now) :
                       /\ b > Len(prev) \/ now[b][1] # prev[b][1]
                       /\ \A c \in 1..(b - 1) : c <= Len(prev) /\ now[c][1] = prev[c][1]
                ELSE 0
    IN  IF hash[n] # r.hsh THEN "changed"
        ELSE IF gone THEN "parents_number"
        ELSE IF stop > Len(prev) THEN "IndexError"
        ELSE IF stop > 0 THEN "parents_order"
        ELSE IF \E b \in 1..Len(now) : now[b] # prev[b]
             THEN (IF DEBUG THEN "AttributeError" ELSE "parents_changed")
        ELSE "ok"

\* the state _check_state returns for node n, or the name of the exception
\* it raises
_check_state(n) ==
  IF ~AllParentsDone(n) THEN "RuntimeError"
  ELSE IF nid(n) \notin DOMAIN hash_table THEN "new"
  ELSE
    LET r == _read_hashes(nid(n))
        prev == r.parents
        now == list_parents_and_hashes(n)
        gone == \E a \in 1..Len(prev) : \A b \in 1..Len(now) : now[b][1] # prev[a][1]
        added == \E b \in 1..Len(now) : \A a \in 1..Len(prev) : now[b][1] # prev[a][1]
        \* first index at which the loop of line 417 stops, 0 when it runs through
        stop == IF \E b \in 1..Len(now) : b > Len(prev) \/ now[b][1] # prev[b][1]
                THEN CHOOSE b \in 1..Len(now) :
                       /\ b > Len(prev) \/ now[b][1] # prev[b][1]
                       /\ \A c \in 1..(b - 1) : c <= Len(prev) /\ now[c][1] = prev[c][1]
                ELSE 0
    IN  IF hash[n] # r.hsh THEN "changed"
        ELSE IF gone \/ added THEN "parents_number"
        ELSE IF stop > Len(prev) THEN "IndexError"
        ELSE IF stop > 0 THEN "parents_order"
        ELSE IF \E b \in 1..Len(now) : now[b] # prev[b]
             THEN (IF DEBUG THEN "AttributeError" ELSE "parents_changed")
        ELSE "ok"

Exceptions == {"RuntimeError", "IndexError", "AttributeError"}

\* ------------------------------------------------------------ initial state
NoTable == [k \in {} |-> <<>>]
None == [none |-> TRUE, ready |-> FALSE, success |-> FALSE]
Idle == [pc |-> "idle", n |-> 0]

\* the counter and the ids after Node(pool, parents) for each node, no nid
\* given
Constructed ==
  /\ gid = Len(parents)
  /\ nids = [n \in Nodes |-> [arg |-> -1, nid |-> nid(n)]]

\* a process that has constructed its nodes and not yet called update
Fresh ==
  /\ _update_done = [n \in Nodes |-> FALSE]
  /\ _payload_delivered = [n \in Nodes |-> FALSE]
  /\ _response = [n \in Nodes |-> None]
  /\ job = [n \in Nodes |-> "none"]
  /\ handler = Idle
  /\ trv = <<>>
  /\ i = 0
  /\ stack = <<>>
  /\ err = ""
  /\ q = <<>>
  /\ submits = [n \in Nodes |-> 0]
  /\ writes = [n \in Nodes |-> 0]
  /\ state = [n \in Nodes |-> ""]
  /\ Constructed

\* the first process of a script in a directory without a hash table
FirstRun ==
  /\ hash = [n \in Nodes |-> 1]
  /\ hash_table = NoTable
  /\ cpc = "start"
  /\ nodes = <<>>
  /\ run = 1
  /\ completed = FALSE
  /\ changed = {}
  /\ repeat = FALSE
  /\ Fresh

Init == parents \in Graphs(NumNodes, MaxEdges) /\ FirstRun

RerunInit == parents \in Graphs(RerunNodes, RerunEdges) /\ FirstRun

\* ------------------------------------------------------------------ update
\* update(x) for a node x, lines 97-104: the call, the list made of x at
\* line 118, the traversal.  A script run again passes the node it passed
\* before.
update(x) ==
  /\ cpc = "start"
  /\ nodes \in {<<>>, <<x>>}
  /\ nodes' = <<x>>
  /\ trv' = _traverse(<<x>>)
  /\ cpc' = "while"
  /\ repeat' = (completed /\ changed = {})
  /\ UNCHANGED <<gid, nids, parents, state, hash, hash_table, _update_done, _payload_delivered,
                 _response, job, handler, i, stack, err, q, run, completed,
                 changed, submits, writes>>

\* update called once more by the process for which it has returned: the
\* nodes keep their flags
update_again ==
  /\ cpc = "done"
  /\ run < MaxRuns
  /\ run' = run + 1
  /\ trv' = _traverse(nodes)
  /\ cpc' = "while"
  /\ completed' = TRUE
  /\ changed' = {}
  /\ repeat' = TRUE
  /\ submits' = [n \in Nodes |-> 0]
  /\ writes' = [n \in Nodes |-> 0]
  /\ UNCHANGED <<gid, nids, parents, state, hash, hash_table, _update_done, _payload_delivered,
                 _response, job, handler, nodes, i, stack, err, q>>

\* line 107: while not all([x.is_updated() for x in trv])
update_while ==
  /\ cpc = "while"
  /\ IF \A j \in 1..Len(trv) : _update_done[trv[j]]
     THEN cpc' = "done" /\ i' = 0
     ELSE cpc' = "for" /\ i' = 1
  /\ UNCHANGED <<gid, nids, parents, state, hash, hash_table, _update_done, _payload_delivered,
                 _response, job, handler, nodes, trv, stack, err, q, run,
                 completed, changed, repeat, submits, writes>>

\* line 108: the next x of trv; x.is_updated() is read here and
\* x._trigger_update() starts with the next step
update_for ==
  /\ cpc = "for"
  /\ IF i > Len(trv) THEN cpc' = "while" /\ i' = 0 /\ stack' = stack
     ELSE IF ~_update_done[trv[i]]
          THEN /\ cpc' = "call"
               /\ i' = i + 1
               /\ stack' = <<[n |-> trv[i], pc |-> "enter", k |-> 0]>>
          ELSE cpc' = cpc /\ i' = i + 1 /\ stack' = stack
  /\ UNCHANGED <<gid, nids, parents, state, hash, hash_table, _update_done, _payload_delivered,
                 _response, job, handler, nodes, trv, err, q, run, completed,
                 changed, repeat, submits, writes>>

\* --------------------------------------------------------- _trigger_update
Top == stack[Len(stack)]
Pop == SubSeq(stack, 1, Len(stack) - 1)
SetTop(f) == [stack EXCEPT ![Len(stack)] = f]
Return == stack' = Pop /\ cpc' = IF Len(stack) = 1 THEN "for" ELSE "call"
Raise(e) == err' = e /\ cpc' = "error" /\ stack' = stack

\* pool.apply_async(payload, (nid,), callback=_update_callback), line 310
apply_async(n) ==
  /\ job' = [job EXCEPT ![n] = "running"]
  /\ _response' = [_response EXCEPT ![n] =
                     [none |-> FALSE, ready |-> FALSE, success |-> FALSE]]
  /\ submits' = [submits EXCEPT ![n] = @ + 1]

\* Branch guarded by the update flag in place of the delivered flag
BranchUnguarded(n, st) ==
  IF st \in Exceptions THEN "raise"
  ELSE IF st = "ok" THEN "update"
  ELSE IF ~_update_done[n] /\ submits[n] < 2 THEN "submit"
  ELSE "wait"

\* Branch that submits no action while another one is in flight
BranchSerial(n, st) ==
  IF st \in Exceptions THEN "raise"
  ELSE IF st = "ok" THEN "update"
  ELSE IF ~_payload_delivered[n] /\ \A m \in Nodes : job[m] # "running" THEN "submit"
  ELSE IF _payload_delivered[n] /\ _response[n].ready /\ ~_response[n].success
       THEN "failed"
  ELSE "wait"

\* Branch that takes the branch of line 300 for a new node as well
BranchNewOk(n, st) ==
  IF st \in Exceptions THEN "raise"
  ELSE IF st \in {"ok", "new"} THEN "update"
  ELSE IF ~_payload_delivered[n] THEN "submit"
  ELSE IF _response[n].ready /\ ~_response[n].success THEN "failed"
  ELSE "wait"

\* the branch of lines 293-321 taken for node n when its parents are updated
\* and _check_state returned st
Branch(n, st) ==
  IF st \in Exceptions THEN "raise"
  ELSE IF st = "ok" THEN "update"
  ELSE IF ~_payload_delivered[n] THEN "submit"
  ELSE IF _response[n].ready /\ ~_response[n].success THEN "failed"
  ELSE "wait"

\* lines 287-321 for the node of the top frame: the test of the parents, then
\* _check_state and the branch it selects
_trigger_update ==
  /\ cpc = "call" /\ Top.pc = "enter"
  /\ LET n == Top.n IN
     IF ~AllParentsDone(n)
     THEN /\ stack' = SetTop([n |-> n, pc |-> "parents", k |-> 1])
          /\ UNCHANGED <<cpc, err, _payload_delivered, job, _response, submits>>
     ELSE LET st == _check_state(n)
              br == Branch(n, st)
          IN  CASE br = "raise" ->
                     /\ Raise(st)
                     /\ UNCHANGED <<_payload_delivered, job, _response, submits>>
                [] br = "update" ->
                     /\ stack' = SetTop([n |-> n, pc |-> "_update", k |-> 0])
                     /\ UNCHANGED <<cpc, err, _payload_delivered, job, _response,
                                    submits>>
                [] br = "submit" ->
                     /\ apply_async(n)
                     /\ _payload_delivered' = [_payload_delivered EXCEPT ![n] = TRUE]
                     /\ Return
                     /\ err' = err
                [] br = "failed" ->
                     /\ Raise("RuntimeError")
                     /\ UNCHANGED <<_payload_delivered, job, _response, submits>>
                [] br = "wait" ->
                     /\ Return
                     /\ UNCHANGED <<err, _payload_delivered, job, _response, submits>>
  /\ state' = IF AllParentsDone(Top.n)
               THEN [state EXCEPT ![Top.n] = _check_state(Top.n)]
               ELSE state
  /\ UNCHANGED <<gid, nids, parents, hash, hash_table, _update_done, handler, nodes, trv,
                 i, q, run, completed, changed, repeat, writes>>

\* line 288: the next parent x of the comprehension; x._update_done is read
\* here and x._trigger_update() starts with the next step
_trigger_parents ==
  /\ cpc = "call" /\ Top.pc = "parents"
  /\ LET n == Top.n
         k == Top.k
     IN  IF k > Len(parents[n]) THEN Return
         ELSE /\ cpc' = cpc
              /\ stack' =
                   SetTop([n |-> n, pc |-> "parents", k |-> k + 1])
                   \o (IF ~_update_done[parents[n][k]]
                       THEN <<[n |-> parents[n][k], pc |-> "enter", k |-> 0]>>
                       ELSE <<>>)
  /\ UNCHANGED <<gid, nids, parents, state, hash, hash_table, _update_done, _payload_delivered,
                 _response, job, handler, nodes, trv, i, err, q, run,
                 completed, changed, repeat, submits, writes>>

\* ----------------------------------------------------------------- _update
\* lines 356-359 for node n
WriteOwn(n) ==
  /\ hash_table' = _write_hashes(nid(n), hash[n], list_parents_and_hashes(n))
  /\ writes' = [writes EXCEPT ![n] = @ + 1]

\* line 362
MarkUpdated(n) == _update_done' = [_update_done EXCEPT ![n] = TRUE]

\* _update called at line 300 on the main control flow: lines 352-359
_update_write ==
  /\ cpc = "call" /\ Top.pc = "_update"
  /\ IF ~AllParentsDone(Top.n)
     THEN Raise("RuntimeError") /\ UNCHANGED <<hash_table, writes>>
     ELSE /\ WriteOwn(Top.n)
          /\ stack' = SetTop([n |-> Top.n, pc |-> "flag", k |-> 0])
          /\ UNCHANGED <<cpc, err>>
  /\ UNCHANGED <<gid, nids, parents, state, hash, _update_done, _payload_delivered, _response,
                 job, handler, nodes, trv, i, q, run, completed, changed,
                 repeat, submits>>

\* _update called at line 300: line 362, and the return of _trigger_update
_update_flag ==
  /\ cpc = "call" /\ Top.pc = "flag"
  /\ MarkUpdated(Top.n)
  /\ Return
  /\ UNCHANGED <<gid, nids, parents, state, hash, hash_table, _payload_delivered, _response,
                 job, handler, nodes, trv, i, err, q, run, completed, changed,
                 repeat, submits, writes>>

\* -------------------------------------------------------------------- pool
\* payload(nid) in a worker process returns True, returns False, or raises
Outcomes == {"True", "False", "raised"}

\* n's task has ended with outcome out and the result-handler thread takes
\* the result: the callback is called with the returned value when the
\* payload did not raise, and the result is marked ready after the callback
\* has returned.  An exception that leaves the callback ends the thread.
ApplyResult_set(n, out) ==
  /\ handler.pc = "idle"
  /\ job[n] = "running"
  /\ job' = [job EXCEPT ![n] = out]
  /\ CASE out = "raised" ->
            /\ _response' = [_response EXCEPT ![n] =
                               [none |-> FALSE, ready |-> TRUE, success |-> FALSE]]
            /\ handler' = handler
       [] out = "True" ->
            /\ _response' = [_response EXCEPT ![n] =
                               [none |-> FALSE, ready |-> FALSE, success |-> TRUE]]
            /\ handler' = [pc |-> "_update", n |-> n]
       [] out = "False" ->
            /\ _response' = [_response EXCEPT ![n] =
                               [none |-> FALSE, ready |-> FALSE, success |-> TRUE]]
            /\ handler' = [pc |-> "dead", n |-> n]
  /\ UNCHANGED <<gid, nids, parents, state, hash, hash_table, _update_done, _payload_delivered,
                 cpc, nodes, trv, i, stack, err, q, run, completed, changed,
                 repeat, submits, writes>>

\* _update_callback(True), line 343: lines 352-359 of _update on the handler
_update_callback ==
  /\ handler.pc = "_update"
  /\ IF ~AllParentsDone(handler.n)
     THEN handler' = [pc |-> "dead", n |-> handler.n] /\ UNCHANGED <<hash_table, writes>>
     ELSE WriteOwn(handler.n) /\ handler' = [pc |-> "flag", n |-> handler.n]
  /\ UNCHANGED <<gid, nids, parents, state, hash, _update_done, _payload_delivered, _response,
                 job, cpc, nodes, trv, i, stack, err, q, run, completed,
                 changed, repeat, submits>>

\* _update_callback(True): line 362 of _update on the handler
_update_callback_flag ==
  /\ handler.pc = "flag"
  /\ MarkUpdated(handler.n)
  /\ handler' = [pc |-> "ready", n |-> handler.n]
  /\ UNCHANGED <<gid, nids, parents, state, hash, hash_table, _payload_delivered, _response,
                 job, cpc, nodes, trv, i, stack, err, q, run, completed,
                 changed, repeat, submits, writes>>

\* the callback has returned: the result becomes ready
ApplyResult_ready ==
  /\ handler.pc = "ready"
  /\ _response' = [_response EXCEPT ![handler.n] =
                     [none |-> FALSE, ready |-> TRUE, success |-> TRUE]]
  /\ handler' = Idle
  /\ UNCHANGED <<gid, nids, parents, state, hash, hash_table, _update_done, _payload_delivered,
                 job, cpc, nodes, trv, i, stack, err, q, run, completed,
                 changed, repeat, submits, writes>>

\* ------------------------------------------------------------- next process
\* The process ends after update has returned or raised, and the script is
\* run again against the hash table it left: the same nodes are constructed,
\* the content of the nodes of c has changed to something new.
Restart(c) ==
  /\ cpc \in {"done", "error"}
  /\ run < MaxRuns
  /\ run' = run + 1
  /\ hash' = [n \in Nodes |-> IF n \in c THEN run + 1 ELSE hash[n]]
  /\ completed' = (cpc = "done")
  /\ changed' = c
  /\ repeat' = FALSE
  /\ cpc' = "start"
  /\ _update_done' = [n \in Nodes |-> FALSE]
  /\ _payload_delivered' = [n \in Nodes |-> FALSE]
  /\ _response' = [n \in Nodes |-> None]
  /\ job' = [n \in Nodes |-> "none"]
  /\ handler' = Idle
  /\ trv' = <<>>
  /\ i' = 0
  /\ stack' = <<>>
  /\ err' = ""
  /\ submits' = [n \in Nodes |-> 0]
  /\ writes' = [n \in Nodes |-> 0]
  /\ state' = [n \in Nodes |-> ""]
  /\ UNCHANGED <<gid, nids, parents, hash_table, nodes, q>>

\* ---------------------------------------------------------- specifications
Main ==
  \/ update_while
  \/ update_for
  \/ _trigger_update
  \/ _trigger_parents
  \/ _update_write
  \/ _update_flag

Pool ==
  \/ \E n \in Nodes, out \in Outcomes : ApplyResult_set(n, out)
  \/ _update_callback
  \/ _update_callback_flag
  \/ ApplyResult_ready

\* one update by one process against an empty hash table
Next ==
  \/ \E x \in Nodes : update(x)
  \/ Main
  \/ Pool

Spec == Init /\ [][Next]_vars

\* a script run up to MaxRuns times against the hash table it leaves
RerunNext ==
  \/ \E x \in Nodes : update(x)
  \/ update_again
  \/ Main
  \/ Pool
  \/ \E c \in SUBSET Nodes : Restart(c)

RerunSpec == RerunInit /\ [][RerunNext]_vars

\* the main control flow runs, and so do the pool's workers and its
\* result-handler thread; whether update is called, and whether the script
\* is run again, is up to the user
Fairness == WF_vars(Main) /\ WF_vars(Pool)

FairSpec == Spec /\ Fairness

FairRerunSpec == RerunSpec /\ Fairness

\* ------------------------------------------------- properties of update runs
Recorded(n) == nid(n) \in DOMAIN hash_table

\* the action of n has reported failure or has raised
Failed(n) == job[n] \in {"False", "raised"}

\* the nodes that have n among their ancestors
Descendants(n) == {d \in Nodes \ {n} : n \in Reachable({d})}

\* C1: a step that submits the action of a node is taken only when every
\* parent of the node is marked updated and has its record in the table
C1_SubmitAfterParents ==
  [][\A n \in Nodes : submits'[n] > submits[n] =>
       \A p \in Range(parents[n]) : _update_done[p] /\ Recorded(p)]_vars

\* the action of a node with two different parents is in flight
C1_Witness ==
  \E n \in Nodes :
    /\ job[n] = "running"
    /\ Len(parents[n]) = 2 /\ parents[n][1] # parents[n][2]

\* C2: no node has its action submitted more than once in an update run
C2_SubmitOnce == \A n \in Nodes : submits[n] <= 1

\* the rule is invoked from a child for a node whose action has been
\* submitted and has reported failure
C2_Witness ==
  /\ cpc = "call" /\ Len(stack) = 2
  /\ Top.pc = "enter"
  /\ job[Top.n] = "False" /\ submits[Top.n] = 1

\* C3: no node writes its record more than once in an update run
C3_WriteOnce == \A n \in Nodes : writes[n] <= 1

\* no descendant of a node whose action has failed is marked updated
NoDescendantUpdated ==
  \A n \in Nodes : Failed(n) => \A d \in Descendants(n) : ~_update_done[d]

\* C4: once the action of a node has failed, update ends with an error, and
\* no descendant of the node is ever marked updated
C4_FatalPropagation ==
  /\ \A n \in 1..NumNodes : (n \in Nodes /\ Failed(n)) ~> (cpc = "error")
  /\ []NoDescendantUpdated

\* C5: when no action fails, an update that has been called returns, every
\* node of the traversal marked updated
C5_Completes ==
  ([](\A n \in Nodes : ~Failed(n))) =>
    [](cpc = "while" =>
         <>(cpc = "done" /\ \A n \in Reachable(Range(nodes)) : _update_done[n]))

\* C8: an update that repeats the completed update before it with nothing
\* changed submits no action, and every classification it makes is ok
C8_Idempotent ==
  repeat =>
    /\ \A n \in Nodes : submits[n] = 0
    /\ cpc # "error"
    /\ (cpc = "call" /\ Top.pc = "enter" /\ AllParentsDone(Top.n)) =>
         _check_state(Top.n) = "ok"

\* a new process repeats the update and has classified as ok a node that
\* has a parent
C8_Witness ==
  /\ repeat
  /\ cpc = "call" /\ Top.pc = "_update"
  /\ parents[Top.n] # <<>>

\* A is node 1 without parents, B is node 2 with the one parent A;
\* update(B) has completed, the content of A alone has changed, and
\* update(B) is running again or has ended
C9_Scenario ==
  /\ parents[1] = <<>> /\ parents[2] = <<1>>
  /\ completed /\ changed = {1}
  /\ nodes = <<2>> /\ cpc # "start"

\* C9: in that scenario B is not submitted before A is marked updated, and
\* when the update has ended with no action failed both A and B have been
\* submitted
C9_ParentChangeRedispatches ==
  C9_Scenario =>
    /\ submits[2] = 1 => _update_done[1]
    /\ (cpc \in {"done", "error"} /\ ~Failed(1) /\ ~Failed(2)) =>
         submits[1] = 1 /\ submits[2] = 1

\* the stored record of n has the hash of n and the ids of the parents of n
\* in their order, and the hash stored for some parent is not its hash now
C10_Case(n) ==
  /\ \A p \in Range(parents[n]) : _update_done[p]
  /\ Recorded(n)
  /\ hash_table[nid(n)][1] = hash[n]
  /\ Len(hash_table[nid(n)]) = 1 + 2 * Len(parents[n])
  /\ \A j \in 1..Len(parents[n]) : hash_table[nid(n)][2 * j] = nid(parents[n][j])
  /\ \E j \in 1..Len(parents[n]) : hash_table[nid(n)][2 * j + 1] # hash[parents[n][j]]

\* C10: in that case _check_state returns parents_changed
C10_ParentsChanged ==
  \A n \in Nodes : C10_Case(n) => _check_state(n) = "parents_changed"

\* ---------------------------------------------------------- _traverse alone
\* _traverse(nodes) on its own, one round of its loop per step, for every
\* graph and every list of starting nodes of summed size up to MaxSize
TravInit ==
  /\ parents \in Graphs(TravNodes, MaxSize)
  /\ nodes \in UNION {Lists(k, TravNodes) : k \in 0..(MaxSize - Edges(parents))}
  /\ q = nodes
  /\ hash = [n \in Nodes |-> 1]
  /\ hash_table = NoTable
  /\ cpc = "traverse"
  /\ run = 1
  /\ completed = FALSE
  /\ changed = {}
  /\ repeat = FALSE
  /\ _update_done = [n \in Nodes |-> FALSE]
  /\ _payload_delivered = [n \in Nodes |-> FALSE]
  /\ _response = [n \in Nodes |-> None]
  /\ job = [n \in Nodes |-> "none"]
  /\ handler = Idle
  /\ trv = <<>>
  /\ i = 0
  /\ stack = <<>>
  /\ err = ""
  /\ submits = [n \in Nodes |-> 0]
  /\ writes = [n \in Nodes |-> 0]
  /\ state = [n \in Nodes |-> ""]
  /\ Constructed

\* lines 125-132: one round of the loop
TravRound ==
  /\ cpc = "traverse"
  /\ q # <<>>
  /\ q' = TravStep(q, trv).q
  /\ trv' = TravStep(q, trv).trv
  /\ UNCHANGED <<gid, nids, parents, state, hash, hash_table, _update_done, _payload_delivered,
                 _response, job, handler, cpc, nodes, i, stack, err, run,
                 completed, changed, repeat, submits, writes>>

\* line 134: the queue is empty, trv is returned
TravReturn ==
  /\ cpc = "traverse"
  /\ q = <<>>
  /\ cpc' = "returned"
  /\ UNCHANGED <<gid, nids, parents, state, hash, hash_table, _update_done, _payload_delivered,
                 _response, job, handler, nodes, trv, i, stack, err, q, run,
                 completed, changed, repeat, submits, writes>>

TravNext == TravRound \/ TravReturn

TravSpec == TravInit /\ [][TravNext]_vars

\* C6: in the list _traverse returns, every parent of every listed node
\* stands at a smaller index than the node
C6_ParentsFirst ==
  cpc = "returned" =>
    \A a \in 1..Len(trv) : \A p \in Range(parents[trv[a]]) :
      \E b \in 1..(a - 1) : trv[b] = p

\* a traversal has returned for a diamond: d over b and c, both over a
C6_Witness ==
  /\ cpc = "returned"
  /\ Len(trv) = 4
  /\ \E a, b, c, d \in Nodes :
       /\ Range(parents[d]) = {b, c} /\ b # c
       /\ parents[b] = <<a>> /\ parents[c] = <<a>>
       /\ nodes = <<d>>

\* C7: the list _traverse returns holds exactly the nodes reachable from the
\* starting nodes, each once
C7_ExactlyReachableOnce ==
  cpc = "returned" =>
    /\ Range(trv) = Reachable(Range(nodes))
    /\ Cardinality(Range(trv)) = Len(trv)

\* a traversal has returned for a starting list that repeats a node whose
\* parent list repeats a parent
C7_Witness ==
  /\ cpc = "returned"
  /\ Len(nodes) = 2 /\ nodes[1] = nodes[2]
  /\ Len(parents[nodes[1]]) = 2 /\ parents[nodes[1]][1] = parents[nodes[1]][2]
  /\ Len(trv) >= 2

\* ------------------------------------------------------ _check_state alone
\* The last node constructed, n, is classified against what an earlier
\* version of the script left under its nid.  Its parents, up to MaxStored
\* of them in any order and with repeats, are nodes without parents.

\* the lists [(x.nid, x.hash()) ...] of up to MaxStored parents that a node
\* constructed as the n-th can have had: nodes constructed before it, with
\* any hashes
Snapshots(n) ==
  UNION {[1..k -> {nid(m) : m \in 1..(n - 1)} \X (1..MaxRuns)] : k \in 0..MaxStored}

\* update(n) has marked every ancestor of n updated, each found ok against
\* its record, and calls n._trigger_update() at line 108; what the earlier
\* script did for n's nid is chosen next
ClassifyInit ==
  /\ \E ps \in UNION {Lists(k, NumNodes - 1) : k \in 0..MaxStored} :
       parents = [m \in 1..NumNodes |-> IF m = NumNodes THEN ps ELSE <<>>]
  /\ hash = [n \in Nodes |-> 1]
  /\ LET n == NumNodes
         anc == Reachable({n}) \ {n}
     IN  /\ hash_table = [k \in {nid(m) : m \in anc} |->
                            <<hash[k + 1]>> \o join(list_parents_and_hashes(k + 1))]
         /\ _update_done = [m \in Nodes |-> m \in anc]
         /\ state = [m \in Nodes |-> IF m \in anc THEN "ok" ELSE ""]
         /\ writes = [m \in Nodes |-> IF m \in anc THEN 1 ELSE 0]
         /\ nodes = <<n>>
         /\ trv = _traverse(<<n>>)
         /\ i = Len(trv) + 1
         /\ stack = <<[n |-> n, pc |-> "enter", k |-> 0]>>
  /\ Constructed
  /\ cpc = "earlier"
  /\ run = 1
  /\ completed = FALSE
  /\ changed = {}
  /\ repeat = FALSE
  /\ _payload_delivered = [n \in Nodes |-> FALSE]
  /\ _response = [n \in Nodes |-> None]
  /\ job = [n \in Nodes |-> "none"]
  /\ handler = Idle
  /\ err = ""
  /\ q = <<>>
  /\ submits = [n \in Nodes |-> 0]

\* the earlier script never updated a node with n's nid
earlier_none ==
  /\ cpc = "earlier"
  /\ cpc' = "call"
  /\ UNCHANGED <<gid, nids, parents, state, hash, hash_table, _update_done, _payload_delivered,
                 _response, job, handler, nodes, trv, i, stack, err, q, run,
                 completed, changed, repeat, submits, writes>>

\* the earlier script updated a node with n's nid that had hash h and the
\* parents and parent hashes ps: _write_hashes(nid, h, ps) at line 359
earlier_update(h, ps) ==
  /\ cpc = "earlier"
  /\ hash_table' = _write_hashes(nid(Top.n), h, ps)
  /\ cpc' = "call"
  /\ UNCHANGED <<gid, nids, parents, state, hash, _update_done, _payload_delivered,
                 _response, job, handler, nodes, trv, i, stack, err, q, run,
                 completed, changed, repeat, submits, writes>>

\* what the earlier script left, then the call that classifies n and takes
\* its branch
ClassifyNext ==
  \/ earlier_none
  \/ \E h \in 1..MaxRuns, ps \in Snapshots(NumNodes) : earlier_update(h, ps)
  \/ _trigger_update

ClassifySpec == ClassifyInit /\ [][ClassifyNext]_vars

\* the node classified, its current list and the list of its record
Last == NumNodes
Now == list_parents_and_hashes(Last)
Prev == _read_hashes(nid(Last)).parents
Ids(ps) == [j \in 1..Len(ps) |-> ps[j][1]]

\* the call of _check_state for the node has returned or raised
Classified == cpc # "earlier" /\ state[Last] # ""

\* the node has a record that holds its current hash
SameHash == Recorded(Last) /\ hash_table[nid(Last)][1] = hash[Last]

\* C11: the node is classified new exactly when the table has no record
\* under its nid, and changed when the hash of its record is not its hash,
\* whatever parents the record lists
C11_NewAndChanged ==
  Classified =>
    /\ state[Last] = "new" <=> ~Recorded(Last)
    /\ (Recorded(Last) /\ hash_table[nid(Last)][1] # hash[Last]) =>
         state[Last] = "changed"

\* classified changed against a record that lists other parents than the
\* node has
C11_Witness ==
  /\ Classified
  /\ state[Last] = "changed"
  /\ Range(Ids(Prev)) # Range(Ids(Now))
  /\ Prev # <<>> /\ Now # <<>>

\* C12: with a record that holds its hash, the node is classified
\* parents_number exactly when the set of parent ids of the record is not
\* the set of its parents' ids
C12_ParentsNumber ==
  (Classified /\ SameHash) =>
    (state[Last] = "parents_number" <=> Range(Ids(Prev)) # Range(Ids(Now)))

\* classified parents_number for a parent that the record does not list,
\* every parent of the record still being one
C12_Witness ==
  /\ Classified /\ SameHash
  /\ state[Last] = "parents_number"
  /\ Prev # <<>>
  /\ Range(Ids(Prev)) \subseteq Range(Ids(Now))

\* C13: with a record that holds its hash and lists the same set of parent
\* ids, the node is classified parents_order whenever the two sequences of
\* ids differ
C13_ParentsOrder ==
  (Classified /\ SameHash /\ Range(Ids(Prev)) = Range(Ids(Now))
     /\ Ids(Prev) # Ids(Now)) =>
    state[Last] = "parents_order"

\* C19: the node is classified ok only with a record that holds its hash and
\* exactly its list of parent ids and hashes, and the classification raises
\* nothing when the two lists differ in length
C19_OkOnlyIfEqual ==
  Classified =>
    /\ state[Last] = "ok" => (SameHash /\ Prev = Now)
    /\ (Recorded(Last) /\ Len(Prev) # Len(Now)) => state[Last] \notin Exceptions

\* C14: a node marked updated either was classified ok by its last
\* classification with no action submitted for it, or its action was
\* submitted and returned True; so a node last classified otherwise is not
\* marked updated unless its action has run
C14_UpdatedOnlyOkOrRun ==
  \A n \in Nodes :
    _update_done[n] => \/ state[n] = "ok" /\ submits[n] = 0
                       \/ job[n] = "True"

\* in a second run one node is marked updated as ok with nothing submitted
\* and another after its action has returned True
C14_Witness ==
  /\ run = 2
  /\ \E n, m \in Nodes :
       /\ _update_done[n] /\ state[n] = "ok" /\ job[n] = "none"
       /\ _update_done[m] /\ state[m] # "ok" /\ job[m] = "True"

\* the states for which line 304 is reached
Recompute == {"new", "changed", "parents_number", "parents_order", "parents_changed"}

\* neither node is an ancestor of the other
Independent(n, m) ==
  n # m /\ n \notin Reachable({m}) /\ m \notin Reachable({n})

\* C15: when the main control flow is at the rule for a node that has its
\* parents updated, needs recomputation and has not been submitted, its
\* step submits the node, whatever other actions are in flight; so the
\* actions of two independent nodes are in flight together
C15_NoOrdering ==
  [][(/\ cpc = "call" /\ Top.pc = "enter"
      /\ AllParentsDone(Top.n)
      /\ _check_state(Top.n) \in Recompute
      /\ ~_payload_delivered[Top.n]
      /\ stack' # stack)
     => submits'[Top.n] = submits[Top.n] + 1 /\ job'[Top.n] = "running"]_vars

\* the actions of two independent nodes are in flight at the same time
C15_Witness ==
  \E n, m \in Nodes :
    Independent(n, m) /\ job[n] = "running" /\ job[m] = "running"

\* ------------------------------------------------------------ construction
\* A script constructs up to NumNodes nodes, each with nid None or given and
\* with no parent or one constructed before.  The strings a caller can give
\* are named by the numbers 0..NumNodes-1, as the strings of the counter
\* are; -1 stands for None.
ConstructInit ==
  /\ parents = <<>>
  /\ gid = 0
  /\ nids = <<>>
  /\ hash = <<>>
  /\ hash_table = NoTable
  /\ cpc = "script"
  /\ nodes = <<>>
  /\ run = 1
  /\ completed = FALSE
  /\ changed = {}
  /\ repeat = FALSE
  /\ _update_done = <<>>
  /\ _payload_delivered = <<>>
  /\ _response = <<>>
  /\ job = <<>>
  /\ handler = Idle
  /\ trv = <<>>
  /\ i = 0
  /\ stack = <<>>
  /\ err = ""
  /\ q = <<>>
  /\ submits = <<>>
  /\ writes = <<>>
  /\ state = <<>>

\* Node(pool, parents=ps, nid=id), lines 191-223: the attribute nid is
\* assigned from the counter when id is None and not at all otherwise
__init__(ps, id) ==
  /\ cpc = "script"
  /\ Len(parents) < NumNodes
  /\ IF id = -1
     THEN /\ nids' = Append(nids, [arg |-> id, nid |-> gid])
          /\ gid' = gid + 1
     ELSE /\ nids' = Append(nids, [arg |-> id, nid |-> -1])
          /\ gid' = gid
  /\ parents' = Append(parents, ps)
  /\ _payload_delivered' = Append(_payload_delivered, FALSE)
  /\ _update_done' = Append(_update_done, FALSE)
  /\ _response' = Append(_response, None)
  /\ hash' = Append(hash, 1)
  /\ job' = Append(job, "none")
  /\ submits' = Append(submits, 0)
  /\ writes' = Append(writes, 0)
  /\ state' = Append(state, "")
  /\ UNCHANGED <<hash_table, handler, cpc, nodes, trv, i, stack, err, q, run,
                 completed, changed, repeat>>

ConstructNext ==
  \E id \in -1..(NumNodes - 1) :
    \E ps \in {<<>>} \cup {<<m>> : m \in Nodes} : __init__(ps, id)

ConstructSpec == ConstructInit /\ [][ConstructNext]_vars

\* C16: every node constructed has an id: the id given when one was given,
\* otherwise one taken from the counter, which is larger than every id taken
\* from it before, so that two nodes constructed with no id given have
\* different ids
C16_EveryNodeHasId ==
  \A n \in Nodes :
    /\ nids[n].nid # -1
    /\ nids[n].arg # -1 => nids[n].nid = nids[n].arg
    /\ nids[n].arg = -1 =>
         /\ nids[n].nid < gid
         /\ \A m \in Nodes : (m # n /\ nids[m].arg = -1) => nids[m].nid # nids[n].nid

\* the table holds under the nid of n the hash of n followed by the id and
\* the hash of each parent of n, in the order of its parents
HasRecord(n) ==
  /\ Recorded(n)
  /\ LET r == hash_table[nid(n)] IN
       /\ Len(r) = 1 + 2 * Len(parents[n])
       /\ r[1] = hash[n]
       /\ \A j \in 1..Len(parents[n]) :
            r[2 * j] = nid(parents[n][j]) /\ r[2 * j + 1] = hash[parents[n][j]]

\* C17: the table holds that record for every node marked updated; a step
\* that marks a node finds the record written; and a step that changes what
\* the table holds for a node leaves the whole record there
C17_RecordOfUpdated ==
  /\ [](\A n \in Nodes : _update_done[n] => HasRecord(n))
  /\ [][\A n \in Nodes :
          /\ (_update_done'[n] /\ ~_update_done[n]) => HasRecord(n)
          /\ writes'[n] > writes[n] => HasRecord(n)']_vars

\* in a second run a node with a parent is marked updated after its own
\* content has changed and its record has been written again
C17_Witness ==
  \E n \in Nodes :
    /\ run = 2 /\ changed = {n}
    /\ parents[n] # <<>>
    /\ writes[n] = 1 /\ _update_done[n]

\* C18: every parent of a node marked updated is marked updated
C18_UpdatedParents ==
  \A n \in Nodes : _update_done[n] => \A p \in Range(parents[n]) : _update_done[p]

\* a node with two different parents has been marked updated after both
\* the callback and the main control flow have run _update for it
C18_Witness ==
  \E n \in Nodes :
    /\ _update_done[n] /\ writes[n] = 2
    /\ Len(parents[n]) = 2 /\ parents[n][1] # parents[n][2]

\* the loop of _traverse runs: nothing else runs in the process, and every
\* round ends
FairTravSpec == TravSpec /\ WF_vars(TravNext)

\* C20: the loop of _traverse ends: the queue becomes empty and the list is
\* returned
C20_TraverseTerminates == <>(q = <<>> /\ cpc = "returned")

\* the node at the head of the queue has been processed before and is
\* processed once more
C20_Witness ==
  /\ cpc = "traverse"
  /\ q # <<>>
  /\ In(Head(q), trv)

====
